---- MODULE Spec2Model ----
(***************************************************************************)
(* Model of voltdb/fastserializer.go: the package-private primitives that  *)
(* serialize the VoltDB wire protocol base types onto an io.Writer and     *)
(* deserialize them from an io.Reader.                                     *)
(*                                                                         *)
(* Representation of machine integers (TLC integers are 32-bit):           *)
(*   byte            0..255                                                *)
(*   int8/int16/int32  the signed value itself                             *)
(*   uint16          0..65535                                              *)
(*   uint32          <<hi, lo>>, two 16-bit limbs                          *)
(*   uint64          <<l3, l2, l1, l0>>, four 16-bit limbs, l3 highest     *)
(*   int64           <<w3, w2, w1, w0>>, w3 in -32768..32767 and the rest  *)
(*                   in 0..65535: the value w3*2^48 + w2*2^32 + w1*2^16+w0 *)
(*   float64         its IEEE-754 binary64 bit pattern, as a uint64        *)
(*   string, []byte  the sequence of its bytes                             *)
(***************************************************************************)
EXTENDS Integers, Sequences, FiniteSets, TLC

Min(a, b) == IF a <= b THEN a ELSE b

Zeros(n) == [i \in 1..n |-> 0]

\* ------------------------------------------------------------------------
\* Integer conversions of the Go language, as the code uses them.
\* ------------------------------------------------------------------------

\* byte(d) for an int8 d, and int8(b) for a byte b.
ToByte(d) == d % 256
ToInt8(b) == IF b >= 128 THEN b - 256 ELSE b

\* uint16(d) for an int16 d, and int16(u) for a uint16 u.
ToUint16(d) == d % 65536
ToInt16(u) == IF u >= 32768 THEN u - 65536 ELSE u

\* uint32(d) for an int32 d, and int32(u) for a uint32 u.
ToUint32(d) == <<(d \div 65536) % 65536, d % 65536>>
ToInt32(u) == ToInt16(u[1]) * 65536 + u[2]

\* uint64(d) for an int64 d, and int64(u) for a uint64 u.
ToUint64(d) == <<d[1] % 65536, d[2], d[3], d[4]>>
ToInt64(u) == <<ToInt16(u[1]), u[2], u[3], u[4]>>

\* ------------------------------------------------------------------------
\* encoding/binary.BigEndian (var order).
\* ------------------------------------------------------------------------

PutUint16(u) == <<u \div 256, u % 256>>

\* Uint16 with the byte order reversed.
Uint16_LittleEndian(bs) == bs[2] * 256 + bs[1]

Uint16(bs) == bs[1] * 256 + bs[2]

PutUint32(u) == PutUint16(u[1]) \o PutUint16(u[2])
Uint32(bs) == <<Uint16(SubSeq(bs, 1, 2)), Uint16(SubSeq(bs, 3, 4))>>

PutUint64(u) == PutUint16(u[1]) \o PutUint16(u[2]) \o PutUint16(u[3]) \o PutUint16(u[4])
Uint64(bs) ==
    <<Uint16(SubSeq(bs, 1, 2)), Uint16(SubSeq(bs, 3, 4)),
      Uint16(SubSeq(bs, 5, 6)), Uint16(SubSeq(bs, 7, 8))>>

\* ------------------------------------------------------------------------
\* 64-bit words as sequences of 64 bits, most significant first.
\* ------------------------------------------------------------------------

RECURSIVE BitsVal(_)
BitsVal(b) ==
    IF b = <<>> THEN 0
    ELSE 2 * BitsVal(SubSeq(b, 1, Len(b) - 1)) + b[Len(b)]

Bits16(l) == [i \in 1..16 |-> (l \div 2^(16 - i)) % 2]
Bits64(u) == Bits16(u[1]) \o Bits16(u[2]) \o Bits16(u[3]) \o Bits16(u[4])
FromBits64(b) ==
    <<BitsVal(SubSeq(b, 1, 16)), BitsVal(SubSeq(b, 17, 32)),
      BitsVal(SubSeq(b, 33, 48)), BitsVal(SubSeq(b, 49, 64))>>

Shr(b, k) == Zeros(k) \o SubSeq(b, 1, Len(b) - k)
Shl(b, k) == SubSeq(b, k + 1, Len(b)) \o Zeros(k)
Not(b) == [i \in 1..Len(b) |-> 1 - b[i]]

RECURSIVE Inc(_)
Inc(b) ==
    IF b = <<>> THEN <<>>
    ELSE IF b[Len(b)] = 0 THEN SubSeq(b, 1, Len(b) - 1) \o <<1>>
    ELSE Inc(SubSeq(b, 1, Len(b) - 1)) \o <<0>>

HasOne(b) == \E i \in 1..Len(b) : b[i] = 1

\* ------------------------------------------------------------------------
\* Conversions between float64 and uint64 (Go's uint64(d) and float64(u)).
\* ------------------------------------------------------------------------

U64Zero == <<0, 0, 0, 0>>
U64Top == <<32768, 0, 0, 0>>
U64Max == <<65535, 65535, 65535, 65535>>

\* uint64(d), d a float64: the fraction is discarded (truncation towards
\* zero).  When the truncated value is not representable in uint64 (d is
\* negative with magnitude >= 1, d >= 2^64, an infinity or a NaN) the Go
\* specification leaves the result implementation-dependent: the set holds
\* the results of the amd64 and arm64 back ends.
FloatToUint64(d) ==
    LET b == Bits64(d)
        sign == b[1]
        exp == BitsVal(SubSeq(b, 2, 12))
        E == exp - 1023
        sig == Zeros(11) \o <<1>> \o SubSeq(b, 13, 64)
        mag == IF E <= 52 THEN Shr(sig, 52 - E) ELSE Shl(sig, E - 52)
    IN  IF exp = 2047 \/ E >= 64 THEN {U64Zero, U64Top, U64Max}
        ELSE IF E < 0 THEN {U64Zero}
        ELSE IF sign = 0 THEN {FromBits64(mag)}
        ELSE {U64Zero, U64Top, U64Max, FromBits64(Inc(Not(mag)))}

\* float64(u), u a uint64: the nearest float64, ties to even.
Uint64ToFloat(u) ==
    LET b == Bits64(u)
    IN  IF ~HasOne(b) THEN U64Zero
        ELSE
          LET p == CHOOSE i \in 1..64 : b[i] = 1 /\ \A j \in 1..(i - 1) : b[j] = 0
              E == 64 - p
              \* the 53 bits from the leading one, and the bits below them
              top == IF E <= 52 THEN SubSeq(b, p, 64) \o Zeros(52 - E)
                     ELSE SubSeq(b, p, p + 52)
              rest == IF E <= 52 THEN <<>> ELSE SubSeq(b, p + 53, 64)
              up == /\ rest # <<>>
                    /\ rest[1] = 1
                    /\ (HasOne(SubSeq(rest, 2, Len(rest))) \/ top[53] = 1)
              carry == up /\ ~(\E i \in 1..53 : top[i] = 0)
              sig == IF up THEN Inc(top) ELSE top
              frac == IF carry THEN Zeros(52) ELSE SubSeq(sig, 2, 53)
              exp == (IF carry THEN E + 1 ELSE E) + 1023
          IN  FromBits64(<<0>> \o SubSeq(Bits16(exp), 6, 16) \o frac)

\* ------------------------------------------------------------------------
\* The byte sink (io.Writer) and the byte source (io.Reader).
\* ------------------------------------------------------------------------

\* A sink: the bytes it has accepted, the outcomes of its coming Write calls
\* (TRUE: the call fails and accepts nothing; past the end of the plan
\* every call succeeds) and the number of Write calls made.
Sink(data, plan) == [data |-> data, plan |-> plan, calls |-> 0]

\* w.Write(p): the sink after the call and the error returned.
SinkWrite(w, p) ==
    LET fail == w.plan # <<>> /\ Head(w.plan)
        rest == IF w.plan = <<>> THEN <<>> ELSE Tail(w.plan)
    IN  [snk |-> [data |-> IF fail THEN w.data ELSE w.data \o p,
                  plan |-> rest,
                  calls |-> w.calls + 1],
         err |-> IF fail THEN "EIO" ELSE "nil"]

\* A source: the stream and the read position; chunk, the most bytes one
\* Read call delivers (0: no limit); left, the bytes it still delivers
\* before it fails with an I/O error (-1: it never fails); eofOnEmpty,
\* whether a Read into an empty buffer at the end of the stream reports
\* io.EOF (bytes.Reader, strings.Reader) or nil (bytes.Buffer).  calls,
\* errs, late and short count the Read calls, those that returned an
\* error, those made after one that returned an error, and those that
\* delivered fewer bytes than asked for with a nil error; first is the
\* first error the source returned.
Source(data, pos, chunk, left, eofOnEmpty) ==
    [data |-> data, pos |-> pos, chunk |-> chunk, left |-> left,
     eofOnEmpty |-> eofOnEmpty, calls |-> 0, errs |-> 0, late |-> 0,
     short |-> 0, first |-> "nil"]

\* r.Read(p) with len(p) = n: the bytes delivered, the error returned and
\* the source after the call.
SrcRead(r, n) ==
    LET avail == Len(r.data) - r.pos
        lim1 == IF r.chunk = 0 THEN n ELSE Min(n, r.chunk)
        lim2 == IF r.left < 0 THEN lim1 ELSE Min(lim1, r.left)
        k == Min(lim2, avail)
        err == IF r.left = 0 THEN "EIO"
               ELSE IF avail = 0 /\ (n > 0 \/ r.eofOnEmpty) THEN "EOF"
               ELSE "nil"
        got == IF err = "nil" THEN SubSeq(r.data, r.pos + 1, r.pos + k) ELSE <<>>
    IN  [got |-> got,
         err |-> err,
         src |-> [r EXCEPT !.pos = r.pos + Len(got),
                           !.left = IF r.left > 0 THEN r.left - Len(got) ELSE r.left,
                           !.calls = r.calls + 1,
                           !.errs = r.errs + (IF err = "nil" THEN 0 ELSE 1),
                           !.late = r.late + (IF r.errs > 0 THEN 1 ELSE 0),
                           !.short = r.short + (IF err = "nil" /\ Len(got) < n THEN 1 ELSE 0),
                           !.first = IF r.first = "nil" THEN err ELSE r.first]]

\* A buffer of n zero bytes (var b [n]byte) after a Read that delivered got
\* into it.
Filled(got, n) == got \o Zeros(n - Len(got))

\* A string value: its length and its bytes.  Str(bs) is the string with
\* the bytes bs.
Str(bs) == [len |-> Len(bs), head |-> bs]

\* string(bs) for bs a buffer of n zero bytes (make([]byte, n)) after a Read
\* that delivered got into it.  The zero bytes past the delivered ones are
\* enumerated up to MaxFill of them; a longer tail of zeros is kept as the
\* length alone.
MaxFill == 8
FilledString(got, n) ==
    IF n - Len(got) <= MaxFill THEN Str(Filled(got, n))
    ELSE [len |-> n, head |-> got]

\* What an operation hands back: a return (value, error) or a panic.
Return(val, err, src) == [out |-> "return", val |-> val, err |-> err, src |-> src]
Panic(src) == [out |-> "panic", val |-> 0, err |-> "nil", src |-> src]

\* A slice result: nil, or the elements.
NilSlice == [isNil |-> TRUE, elems |-> <<>>]
Slice(elems) == [isNil |-> FALSE, elems |-> elems]

\* ------------------------------------------------------------------------
\* The serializers.  A write takes the sink and the value and gives the
\* sink afterwards and the error returned; a read takes the source and
\* gives what it hands back and the source afterwards.
\* ------------------------------------------------------------------------

protoVersion == 1

writeProtoVersion(w) == SinkWrite(w, <<protoVersion>>)

writeByte(w, d) == SinkWrite(w, <<ToByte(d)>>)

writeBoolean(w, d) == IF d THEN writeByte(w, 1) ELSE writeByte(w, 0)

\* readByte trying the Read a second time when it fails.
readByte_Retry(r) ==
    LET x == SrcRead(r, 1)
        y == IF x.err # "nil" THEN SrcRead(x.src, 1) ELSE x
    IN  IF y.err # "nil" THEN Return(0, y.err, y.src)
        ELSE Return(ToInt8(Filled(y.got, 1)[1]), "nil", y.src)

readByte(r) ==
    LET x == SrcRead(r, 1)
    IN  IF x.err # "nil" THEN Return(0, x.err, x.src)
        ELSE Return(ToInt8(Filled(x.got, 1)[1]), "nil", x.src)

\* readBoolean taking only the byte 1 for true.
readBoolean_OnlyOne(r) ==
    LET x == readByte(r)
    IN  IF x.err # "nil" THEN Return(FALSE, x.err, x.src)
        ELSE Return(x.val = 1, "nil", x.src)

readBoolean(r) ==
    LET x == readByte(r)
    IN  IF x.err # "nil" THEN Return(FALSE, x.err, x.src)
        ELSE Return(x.val # 0, "nil", x.src)

writeShort(w, d) == SinkWrite(w, PutUint16(ToUint16(d)))

readShort(r) ==
    LET x == SrcRead(r, 2)
    IN  IF x.err # "nil" THEN Return(0, x.err, x.src)
        ELSE Return(ToInt16(Uint16(Filled(x.got, 2))), "nil", x.src)

writeInt(w, d) == SinkWrite(w, PutUint32(ToUint32(d)))

readInt(r) ==
    LET x == SrcRead(r, 4)
    IN  IF x.err # "nil" THEN Return(0, x.err, x.src)
        ELSE Return(ToInt32(Uint32(Filled(x.got, 4))), "nil", x.src)

writeLong(w, d) == SinkWrite(w, PutUint64(ToUint64(d)))

readLong(r) ==
    LET x == SrcRead(r, 8)
    IN  IF x.err # "nil" THEN Return(<<0, 0, 0, 0>>, x.err, x.src)
        ELSE Return(ToInt64(Uint64(Filled(x.got, 8))), "nil", x.src)

\* The sinks writeFloat can leave: one for each result uint64(d) can have.
writeFloat(w, d) == {SinkWrite(w, PutUint64(u)) : u \in FloatToUint64(d)}

readFloat(r) ==
    LET x == SrcRead(r, 8)
    IN  IF x.err # "nil" THEN Return(U64Zero, x.err, x.src)
        ELSE Return(Uint64ToFloat(Uint64(Filled(x.got, 8))), "nil", x.src)

\* The error of writeInt is dropped; the error of the payload is returned.
writeString(w, d) ==
    LET a == writeInt(w, Len(d))
    IN  SinkWrite(a.snk, d)

\* make([]byte, length) panics when length is negative.
readString(r) ==
    LET x == readInt(r)
    IN  IF x.err # "nil" THEN Return(Str(<<>>), x.err, x.src)
        ELSE IF x.val < 0 THEN Panic(x.src)
        ELSE LET y == SrcRead(x.src, x.val)
             IN  IF y.err # "nil" THEN Return(Str(<<>>), y.err, y.src)
                 ELSE Return(FilledString(y.got, x.val), "nil", y.src)

\* The loop of readByteArray from index idx on, arr the elements set so far.
RECURSIVE readByteArrayLoop(_, _, _, _)
readByteArrayLoop(r, cnt, idx, arr) ==
    IF idx = cnt THEN Return(Slice(arr), "nil", r)
    ELSE LET x == readByte(r)
         IN  IF x.err # "nil" THEN Return(NilSlice, x.err, x.src)
             ELSE readByteArrayLoop(x.src, cnt, idx + 1, Append(arr, x.val))

\* make([]int8, cnt) panics when cnt is negative.
readByteArray(r) ==
    LET c == readInt(r)
    IN  IF c.err # "nil" THEN Return(NilSlice, c.err, c.src)
        ELSE IF c.val < 0 THEN Panic(c.src)
        ELSE readByteArrayLoop(c.src, c.val, 0, <<>>)

\* The loop of readStringArray; a panic of readString unwinds through it.
RECURSIVE readStringArrayLoop(_, _, _, _)
readStringArrayLoop(r, cnt, idx, arr) ==
    IF idx = cnt THEN Return(Slice(arr), "nil", r)
    ELSE LET x == readString(r)
         IN  IF x.out = "panic" THEN Panic(x.src)
             ELSE IF x.err # "nil" THEN Return(NilSlice, x.err, x.src)
             ELSE readStringArrayLoop(x.src, cnt, idx + 1, Append(arr, x.val))

\* make([]string, cnt) panics when cnt is negative.
readStringArray(r) ==
    LET c == readShort(r)
    IN  IF c.err # "nil" THEN Return(NilSlice, c.err, c.src)
        ELSE IF c.val < 0 THEN Panic(c.src)
        ELSE readStringArrayLoop(c.src, c.val, 0, <<>>)

writeByteString(w, d) ==
    LET a == writeInt(w, Len(d))
    IN  SinkWrite(a.snk, d)

\* ------------------------------------------------------------------------
\* The program: a caller that writes values to a stream and reads values
\* back from it, one serializer call at a time.
\* ------------------------------------------------------------------------

VARIABLES
    mode,        \* "free": any call at any time, on a sink and a source that
                 \*   may fail; "framed": reliable sink and source, and each
                 \*   read is the one that matches what was written there
    eofOnEmpty,  \* the kind of source (see Source)
    stream,      \* the bytes the sink has accepted; the source reads them
    rpos,        \* the number of bytes the source has delivered
    wlog,        \* the writes made: operation, value, extent, success
    reads,       \* the number of reads made
    decoded,     \* what the framed caller has read back, in order
    last         \* the last call, with what the sink or source did in it

vars == <<mode, eofOnEmpty, stream, rpos, wlog, reads, decoded, last>>

MaxFreeWrites == 1
MaxFreeReads == 1
MaxFramedWrites == 4

MinInt32 == -2147483647 - 1
MaxInt32 == 2147483647

\* The values the caller writes.
Int8Vals == IF mode = "free" THEN {0, 7, -1, -128, 127} ELSE {}
Int16Vals == IF mode = "free" THEN {0, 258, -1, -32768, 32767} ELSE {1, 2}
Int32Vals == IF mode = "free" THEN {0, 2, 16909060, -1, MinInt32, MaxInt32} ELSE {42}
Int64Vals ==
    IF mode = "free"
    THEN {<<0, 0, 0, 0>>, <<2, 0, 0, 0>>, <<258, 772, 1286, 1800>>,
          <<-1, 65535, 65535, 65535>>, <<-32768, 0, 0, 0>>,
          <<32767, 65535, 65535, 65535>>}
    ELSE {}
\* 3.5, 65537.0, +0, -0, 0.5, -1.0, 2^65, +Inf, -Inf, a NaN
Float64Vals ==
    IF mode = "free"
    THEN {<<16396, 0, 0, 0>>, <<16624, 16, 0, 0>>, <<0, 0, 0, 0>>,
          <<32768, 0, 0, 0>>, <<16352, 0, 0, 0>>, <<49136, 0, 0, 0>>,
          <<17408, 0, 0, 0>>, <<32752, 0, 0, 0>>, <<65520, 0, 0, 0>>,
          <<32760, 0, 0, 1>>}
    ELSE {<<16396, 0, 0, 0>>}
\* "", "ok", "é"
StringVals == IF mode = "free" THEN {<<>>, <<111, 107>>, <<195, 169>>} ELSE {<<>>, <<111, 107>>}
ByteStringVals == IF mode = "free" THEN {<<>>, <<1, 255>>} ELSE {}
BoolVals == IF mode = "free" THEN BOOLEAN ELSE {TRUE}

\* What the sink does to the Write calls of one operation, and what the
\* source does to the Read calls of one operation.
Plans(n) == IF mode = "free" THEN [1..n -> BOOLEAN] ELSE {[i \in 1..n |-> FALSE]}
\* chunk and left of the source (see Source): a reliable source, one that
\* delivers a byte at a time, one that fails at once, one that fails after
\* five more bytes.
Reliable == [chunk |-> 0, left |-> -1]
Faults ==
    IF mode = "free"
    THEN {Reliable, [chunk |-> 1, left |-> -1], [chunk |-> 0, left |-> 0],
          [chunk |-> 0, left |-> 5]}
    ELSE {Reliable}

\* The caller stops at the first call that panics or returns an error: the
\* stream is then no longer aligned with the values in it.
Stopped ==
    \/ last.kind = "read" /\ (last.out = "panic" \/ last.err # "nil")
    \/ last.kind = "write" /\ last.err # "nil"

\* The caller encodes its values and then decodes them.
CanWrite ==
    /\ ~Stopped
    /\ reads = 0
    /\ Len(wlog) < (IF mode = "free" THEN MaxFreeWrites ELSE MaxFramedWrites)

\* The successful write that starts at offset off, if there is one.
HasEntry(off) == \E i \in 1..Len(wlog) : wlog[i].ok /\ wlog[i].from = off
EntryAt(off) == CHOOSE i \in 1..Len(wlog) : wlog[i].ok /\ wlog[i].from = off

\* Entries i+1 .. i+n are successful writes by operation op, laid end to end
\* after entry i.
Run(i, n, op) ==
    /\ n <= Len(wlog) - i
    /\ \A k \in 1..n : /\ wlog[i + k].ok
                       /\ wlog[i + k].op = op
                       /\ wlog[i + k].from = wlog[i + k - 1].to

\* The writer calls whose output a read operation is the reader of.
Framed(op, off) ==
    /\ HasEntry(off)
    /\ LET i == EntryAt(off)
           e == wlog[i]
       IN  CASE op = "readByte" -> e.op \in {"writeByte", "writeProtoVersion"}
             [] op = "readBoolean" -> e.op = "writeBoolean"
             [] op = "readShort" -> e.op = "writeShort"
             [] op = "readInt" -> e.op = "writeInt"
             [] op = "readLong" -> e.op = "writeLong"
             [] op = "readFloat" -> e.op = "writeFloat"
             [] op = "readString" -> e.op = "writeString"
             [] op = "readByteArray" ->
                    \/ e.op = "writeByteString"
                    \/ e.op = "writeInt" /\ e.arg >= 0 /\ Run(i, e.arg, "writeByte")
             [] op = "readStringArray" ->
                    e.op = "writeShort" /\ e.arg >= 0 /\ Run(i, e.arg, "writeString")

CanRead(op) ==
    /\ ~Stopped
    /\ IF mode = "free" THEN reads < MaxFreeReads ELSE Framed(op, rpos)

Wrote(op, arg, plan, res) ==
    /\ stream' = res.snk.data
    /\ wlog' = Append(wlog, [op |-> op, arg |-> arg, from |-> Len(stream),
                             to |-> Len(res.snk.data),
                             ok |-> res.err = "nil" /\ \A i \in 1..Len(plan) : ~plan[i]])
    /\ last' = [kind |-> "write", op |-> op, arg |-> arg, err |-> res.err,
                from |-> Len(stream), plan |-> plan, calls |-> res.snk.calls]
    /\ UNCHANGED <<mode, eofOnEmpty, rpos, reads, decoded>>

DidRead(op, res) ==
    /\ rpos' = res.src.pos
    /\ reads' = reads + 1
    /\ decoded' = IF mode = "free" THEN decoded
                  ELSE Append(decoded, [op |-> op, out |-> res.out, val |-> res.val,
                                        err |-> res.err, from |-> rpos,
                                        to |-> res.src.pos])
    /\ last' = [kind |-> "read", op |-> op, out |-> res.out, val |-> res.val,
                err |-> res.err, from |-> rpos, src |-> res.src]
    /\ UNCHANGED <<mode, eofOnEmpty, stream, wlog>>

Init ==
    /\ mode \in {"free", "framed"}
    /\ eofOnEmpty \in BOOLEAN
    /\ stream = <<>>
    /\ rpos = 0
    /\ wlog = <<>>
    /\ reads = 0
    /\ decoded = <<>>
    /\ last = [kind |-> "none"]

WriteProtoVersion ==
    \E plan \in Plans(1) :
        /\ CanWrite
        /\ mode = "free"
        /\ Wrote("writeProtoVersion", protoVersion, plan,
                 writeProtoVersion(Sink(stream, plan)))

WriteBoolean ==
    \E d \in BoolVals, plan \in Plans(1) :
        /\ CanWrite
        /\ Wrote("writeBoolean", d, plan, writeBoolean(Sink(stream, plan), d))

WriteByte ==
    \E d \in Int8Vals, plan \in Plans(1) :
        /\ CanWrite
        /\ Wrote("writeByte", d, plan, writeByte(Sink(stream, plan), d))

WriteShort ==
    \E d \in Int16Vals, plan \in Plans(1) :
        /\ CanWrite
        /\ Wrote("writeShort", d, plan, writeShort(Sink(stream, plan), d))

WriteInt ==
    \E d \in Int32Vals, plan \in Plans(1) :
        /\ CanWrite
        /\ Wrote("writeInt", d, plan, writeInt(Sink(stream, plan), d))

WriteLong ==
    \E d \in Int64Vals, plan \in Plans(1) :
        /\ CanWrite
        /\ Wrote("writeLong", d, plan, writeLong(Sink(stream, plan), d))

WriteFloat ==
    \E d \in Float64Vals, plan \in Plans(1) :
        /\ CanWrite
        /\ \E res \in writeFloat(Sink(stream, plan), d) :
               Wrote("writeFloat", d, plan, res)

WriteString ==
    \E d \in StringVals, plan \in Plans(2) :
        /\ CanWrite
        /\ Wrote("writeString", d, plan, writeString(Sink(stream, plan), d))

WriteByteString ==
    \E d \in ByteStringVals, plan \in Plans(2) :
        /\ CanWrite
        /\ Wrote("writeByteString", d, plan, writeByteString(Sink(stream, plan), d))

ReadBoolean ==
    \E f \in Faults :
        /\ CanRead("readBoolean")
        /\ DidRead("readBoolean",
                   readBoolean(Source(stream, rpos, f.chunk, f.left, eofOnEmpty)))

ReadByte ==
    \E f \in Faults :
        /\ CanRead("readByte")
        /\ DidRead("readByte",
                   readByte(Source(stream, rpos, f.chunk, f.left, eofOnEmpty)))

ReadByteArray ==
    \E f \in Faults :
        /\ CanRead("readByteArray")
        /\ DidRead("readByteArray",
                   readByteArray(Source(stream, rpos, f.chunk, f.left, eofOnEmpty)))

ReadShort ==
    \E f \in Faults :
        /\ CanRead("readShort")
        /\ DidRead("readShort",
                   readShort(Source(stream, rpos, f.chunk, f.left, eofOnEmpty)))

ReadInt ==
    \E f \in Faults :
        /\ CanRead("readInt")
        /\ DidRead("readInt",
                   readInt(Source(stream, rpos, f.chunk, f.left, eofOnEmpty)))

ReadLong ==
    \E f \in Faults :
        /\ CanRead("readLong")
        /\ DidRead("readLong",
                   readLong(Source(stream, rpos, f.chunk, f.left, eofOnEmpty)))

ReadFloat ==
    \E f \in Faults :
        /\ CanRead("readFloat")
        /\ DidRead("readFloat",
                   readFloat(Source(stream, rpos, f.chunk, f.left, eofOnEmpty)))

ReadString ==
    \E f \in Faults :
        /\ CanRead("readString")
        /\ DidRead("readString",
                   readString(Source(stream, rpos, f.chunk, f.left, eofOnEmpty)))

ReadStringArray ==
    \E f \in Faults :
        /\ CanRead("readStringArray")
        /\ DidRead("readStringArray",
                   readStringArray(Source(stream, rpos, f.chunk, f.left, eofOnEmpty)))

Next ==
    \/ WriteProtoVersion
    \/ WriteBoolean
    \/ WriteByte
    \/ WriteShort
    \/ WriteInt
    \/ WriteLong
    \/ WriteFloat
    \/ WriteString
    \/ WriteByteString
    \/ ReadBoolean
    \/ ReadByte
    \/ ReadByteArray
    \/ ReadShort
    \/ ReadInt
    \/ ReadLong
    \/ ReadFloat
    \/ ReadString
    \/ ReadStringArray

Spec == Init /\ [][Next]_vars

\* ------------------------------------------------------------------------
\* What the claims speak of.
\* ------------------------------------------------------------------------

\* The last call was the read operation op.
IsRead(op) == last.kind = "read" /\ last.op = op

\* The last call was a read from a source that delivers every byte asked
\* for and present in the stream, and reports only the end of the stream.
CleanRead == last.kind = "read" /\ last.src.chunk = 0 /\ last.src.left = -1

\* The last call was a read that returned a value and no error.
ReadOk == last.kind = "read" /\ last.out = "return" /\ last.err = "nil"

\* The bytes write number i put on the stream.
Segment(i) == SubSeq(stream, wlog[i].from + 1, wlog[i].to)

\* The n bytes of the two's complement of v, most significant first, and
\* the same for a 64-bit word in limbs.
BigEndian(v, n) == [i \in 1..n |-> (v \div 256^(n - i)) % 256]
BigEndian64(d) ==
    BigEndian(d[1], 2) \o BigEndian(d[2], 2) \o BigEndian(d[3], 2) \o BigEndian(d[4], 2)

Signed8(b) == IF b >= 128 THEN b - 256 ELSE b

\* The value the writes at offset off hold for the read operation op that
\* is their reader, and the offset where they end.
ExpectedVal(op, off) ==
    LET i == EntryAt(off)
        e == wlog[i]
    IN  CASE op = "readString" -> Str(e.arg)
          [] op = "readByteArray" ->
                 IF e.op = "writeByteString"
                 THEN Slice([k \in 1..Len(e.arg) |-> Signed8(e.arg[k])])
                 ELSE Slice([k \in 1..e.arg |-> wlog[i + k].arg])
          [] op = "readStringArray" -> Slice([k \in 1..e.arg |-> Str(wlog[i + k].arg)])
          [] OTHER -> e.arg

ExpectedEnd(op, off) ==
    LET i == EntryAt(off)
        e == wlog[i]
    IN  CASE op = "readByteArray" /\ e.op = "writeInt" -> wlog[i + e.arg].to
          [] op = "readStringArray" -> wlog[i + e.arg].to
          [] OTHER -> e.to

\* The last call read back, with the read operation op, what was written
\* for it: it returned that value and no error, and consumed those bytes.
ReadBack(op) ==
    /\ ReadOk
    /\ last.val = ExpectedVal(op, last.from)
    /\ last.src.pos = ExpectedEnd(op, last.from)

\* The last call read, from a reliable source, a length or count prefix
\* that a write put there and that is negative.
NegativePrefix ==
    /\ CleanRead
    /\ HasEntry(last.from)
    /\ LET e == wlog[EntryAt(last.from)]
       IN  /\ \/ last.op \in {"readString", "readByteArray"} /\ e.op = "writeInt"
              \/ last.op = "readStringArray" /\ e.op = "writeShort"
           /\ e.arg < 0

\* The bytes of the fixed-width fields.
Width(op) ==
    CASE op = "readShort" -> 2
      [] op = "readInt" -> 4
      [] op = "readLong" -> 8
      [] op = "readFloat" -> 8

\* The readers of the signed integers.
IntReaders == {"readByte", "readShort", "readInt", "readLong"}

\* What a read operation returns beside an error.
ZeroValue(op) ==
    CASE op = "readBoolean" -> FALSE
      [] op \in {"readByte", "readShort", "readInt"} -> 0
      [] op \in {"readLong", "readFloat"} -> <<0, 0, 0, 0>>
      [] op = "readString" -> Str(<<>>)
      [] op \in {"readByteArray", "readStringArray"} -> NilSlice

\* ------------------------------------------------------------------------
\* C1.  writeFloat puts the bit pattern of d on the stream, big-endian, and
\* readFloat of those 8 bytes returns a value with the bit pattern of d.
\* ------------------------------------------------------------------------
C1_FloatBitPattern ==
    /\ \A i \in 1..Len(wlog) :
           wlog[i].ok /\ wlog[i].op = "writeFloat"
               => Segment(i) = BigEndian64(wlog[i].arg)
    /\ IsRead("readFloat") /\ CleanRead /\ Framed("readFloat", last.from)
           => ReadBack("readFloat")

\* ------------------------------------------------------------------------
\* C2.  A negative length or count prefix makes readString, readByteArray
\* and readStringArray return a malformed-length error, which is no I/O
\* error; they do not panic.
\* ------------------------------------------------------------------------
C2_NegativeLengthRejected ==
    last.kind = "read" /\ last.op \in {"readString", "readByteArray", "readStringArray"}
        /\ NegativePrefix
        => last.out = "return" /\ last.err \notin {"nil", "EOF", "EIO"}

\* ------------------------------------------------------------------------
\* C3.  A write operation one of whose sink writes failed returns an error.
\* ------------------------------------------------------------------------
C3_NoSinkErrorSwallowed ==
    last.kind = "write" /\ (\E i \in 1..last.calls : last.plan[i])
        => last.err # "nil"

\* ------------------------------------------------------------------------
\* C4.  A read that returns a value and no error has consumed all the bytes
\* of its field: 2, 4, 8 and 8 for readShort, readInt, readLong and
\* readFloat, and the 4 of the length and the whole payload for readString.
\* ------------------------------------------------------------------------
C4_NoPartialValue ==
    /\ ReadOk /\ last.op \in {"readShort", "readInt", "readLong", "readFloat"}
           => last.src.pos - last.from = Width(last.op)
    /\ ReadOk /\ last.op = "readString"
           => last.src.pos - last.from = 4 + last.val.len

\* ------------------------------------------------------------------------
\* C5.  writeByte, writeShort, writeInt and writeLong put the 1, 2, 4 and 8
\* bytes of the two's complement of v on the stream, most significant
\* first, and the matching read of those bytes returns v.
\* ------------------------------------------------------------------------
C5_IntegerRoundTrip ==
    /\ \A i \in 1..Len(wlog) :
           wlog[i].ok =>
               /\ wlog[i].op = "writeByte" => Segment(i) = BigEndian(wlog[i].arg, 1)
               /\ wlog[i].op = "writeShort" => Segment(i) = BigEndian(wlog[i].arg, 2)
               /\ wlog[i].op = "writeInt" => Segment(i) = BigEndian(wlog[i].arg, 4)
               /\ wlog[i].op = "writeLong" => Segment(i) = BigEndian64(wlog[i].arg)
    /\ \A op \in IntReaders :
           IsRead(op) /\ CleanRead /\ Framed(op, last.from) => ReadBack(op)

\* readLong has read back the least int64.
C5_Witness ==
    /\ IsRead("readLong") /\ CleanRead /\ Framed("readLong", last.from)
    /\ ReadOk
    /\ last.val = <<-32768, 0, 0, 0>>
    /\ stream = <<128, 0, 0, 0, 0, 0, 0, 0>>

\* ------------------------------------------------------------------------
\* C6.  writeString puts the 4-byte big-endian byte length of s and then the
\* bytes of s on the stream, and readString of that output returns s and no
\* error, the empty string at the end of the stream included.
\* ------------------------------------------------------------------------
C6_StringRoundTrip ==
    /\ \A i \in 1..Len(wlog) :
           wlog[i].ok /\ wlog[i].op = "writeString"
               => Segment(i) = BigEndian(Len(wlog[i].arg), 4) \o wlog[i].arg
    /\ IsRead("readString") /\ CleanRead /\ Framed("readString", last.from)
           => ReadBack("readString")

\* ------------------------------------------------------------------------
\* C7.  Values written in order to one stream and read back in the same
\* order with the matching reads come back as written, each read consuming
\* the bytes its write produced, and the stream is consumed to the end of
\* the last value read.
\* ------------------------------------------------------------------------
C7_SequenceRoundTrip ==
    mode = "framed" =>
        /\ \A k \in 1..Len(decoded) :
               /\ decoded[k].out = "return"
               /\ decoded[k].err = "nil"
               /\ decoded[k].val = ExpectedVal(decoded[k].op, decoded[k].from)
               /\ decoded[k].to = ExpectedEnd(decoded[k].op, decoded[k].from)
        /\ decoded # <<>> => rpos = decoded[Len(decoded)].to

\* ------------------------------------------------------------------------
\* C8.  writeBoolean puts one byte on the stream, 1 for true and 0 for
\* false; readBoolean consumes one byte and returns true exactly when it is
\* not 0; so readBoolean returns what writeBoolean wrote.
\* ------------------------------------------------------------------------
C8_Boolean ==
    /\ \A i \in 1..Len(wlog) :
           wlog[i].ok /\ wlog[i].op = "writeBoolean"
               => Segment(i) = IF wlog[i].arg THEN <<1>> ELSE <<0>>
    /\ IsRead("readBoolean") /\ last.src.left # 0 /\ last.from < Len(stream)
           => /\ ReadOk
              /\ last.val = (stream[last.from + 1] # 0)
              /\ last.src.pos = last.from + 1
    /\ IsRead("readBoolean") /\ last.src.left # 0 /\ Framed("readBoolean", last.from)
           => ReadBack("readBoolean")

\* readBoolean has returned true for a byte other than 0 and 1.
C8_Witness ==
    /\ IsRead("readBoolean")
    /\ last.from < Len(stream)
    /\ stream[last.from + 1] \in {7, 128, 255}
    /\ ReadOk
    /\ last.val = TRUE

\* ------------------------------------------------------------------------
\* C9.  readStringArray consumes a 2-byte count N and N strings, and
\* readByteArray a 4-byte count N and N bytes, and each returns the N
\* elements in stream order (none for N = 0).
\* ------------------------------------------------------------------------
C9_ArrayReaders ==
    \A op \in {"readStringArray", "readByteArray"} :
        IsRead(op) /\ CleanRead /\ Framed(op, last.from) => ReadBack(op)

\* ------------------------------------------------------------------------
\* C10.  When the source reports an error on a read, the read operation in
\* progress returns that error and the zero value (false, 0, the empty
\* string, a nil slice), and makes no further read: not a second attempt,
\* and nothing after the failing one.
\* ------------------------------------------------------------------------
C10_SourceErrorPropagated ==
    last.kind = "read" /\ last.src.errs > 0
        => /\ last.out = "return"
           /\ last.err # "nil"
           /\ last.err = last.src.first
           /\ last.val = ZeroValue(last.op)
           /\ last.src.errs = 1
           /\ last.src.late = 0

\* readByteArray has met an error of the source after it read elements.
C10_Witness ==
    /\ IsRead("readByteArray")
    /\ last.src.errs > 0
    /\ last.src.calls >= 3
    /\ last.err = "EIO"

====
